---- MODULE Spec2Model ----
(***************************************************************************)
(* The timetable service of the hospital-management system                 *)
(* (src/timetable_service/timetable_service.py) together with the two      *)
(* collaborators it calls over HTTP: the account service's Validate        *)
(* endpoint and the hospital service's Hospitals/{id} endpoint.            *)
(*                                                                         *)
(* A request to the timetable service is a record in `calls`.  A handler   *)
(* is cut into steps at the points where the coroutine awaits something    *)
(* that reads or writes state outside the request (the authentication      *)
(* service, the hospital directory, the database); what runs between two   *)
(* such awaits is one step.                                                *)
(*                                                                         *)
(* Five specifications wire the same handler steps differently:            *)
(*   ValSpec   validate_time_range alone, on a grid of instants;           *)
(*   Spec      the timetable service, one request at a time, with the two  *)
(*             collaborators as environment (any answer the wire allows);  *)
(*   ConcSpec  two concurrent create_timetable requests;                   *)
(*   AuthSpec  the timetable service behind the repository's own account   *)
(*             service (sign_up, sign_in, Validate);                       *)
(*   HospSpec  the timetable service's existence check against the         *)
(*             repository's own hospital service.                          *)
(*                                                                         *)
(* In Spec and ConcSpec the two collaborators are environment: the          *)
(* services are deployed independently and the timetable service sees      *)
(* only a status and a JSON body.  AuthSpec and HospSpec put the           *)
(* repository's own account and hospital service behind the same steps.    *)
(*                                                                         *)
(* Assumptions, all from the spec's "out of scope" list: the ORM session   *)
(* behaves as the awaited calls intend (a row built from a body holds the  *)
(* body's fields, commit persists, refresh re-reads, the primary key comes *)
(* from a database sequence); all instants are naive datetimes of one      *)
(* timezone; the collaborators always answer (a transport failure of       *)
(* httpx is not modelled).                                                 *)
(***************************************************************************)
EXTENDS Integers, FiniteSets, Sequences, TLC

VARIABLES
    timetables,     \* rows of table Timetable
    next_id,        \* the database sequence behind Timetable.id
    directory,      \* what GET Hospitals/{id} answers, per hospital id (environment)
    calls,          \* requests to the timetable service, per slot
    arg_from,       \* validate_time_range: argument from_time
    arg_to,         \* validate_time_range: argument to_time
    raised,         \* validate_time_range: what the call raised
    users,          \* account service: rows of table users (as the database holds them)
    now,            \* account service: the clock jwt reads, in hours
    client,         \* the last answer of sign_in, as the client holds it
    hospitals,      \* hospital service: rows of table Hospital
    next_hospital_id \* hospital service: the sequence behind Hospital.id

ttVars == <<timetables, next_id>>
valVars == <<arg_from, arg_to, raised>>
acctVars == <<users, now, client>>
hospVars == <<hospitals, next_hospital_id>>

vars == <<timetables, next_id, directory, calls, arg_from, arg_to, raised,
          users, now, client, hospitals, next_hospital_id>>

----------------------------------------------------------------------------
(* Bounds *)

\* Largest Timetable.id the database sequence hands out.
MaxId == 2

----------------------------------------------------------------------------
(* datetime *)

\* A naive datetime.datetime: the date as a day number, and the time fields.
DateTime(d, h, m, s, us) ==
    [day |-> d, hour |-> h, minute |-> m, second |-> s, microsecond |-> us]

\* Whole seconds since midnight of day 0.
Seconds(t) == ((t.day * 24 + t.hour) * 60 + t.minute) * 60 + t.second

\* a <= b on datetimes.
DtLe(a, b) ==
    \/ Seconds(a) < Seconds(b)
    \/ Seconds(a) = Seconds(b) /\ a.microsecond <= b.microsecond

\* a - b as a normalised timedelta (0 <= microseconds < 10^6).
timedelta(a, b) ==
    LET ds  == Seconds(a) - Seconds(b)
        dus == a.microsecond - b.microsecond
    IN  IF dus < 0
        THEN [seconds |-> ds - 1, microseconds |-> dus + 1000000]
        ELSE [seconds |-> ds, microseconds |-> dus]

\* delta.total_seconds() > n for a whole number n.
total_seconds_gt(delta, n) ==
    \/ delta.seconds > n
    \/ delta.seconds = n /\ delta.microseconds > 0

----------------------------------------------------------------------------
(* validate_time_range *)

Pending == "pending"
NoError == "none"
OrderingError == "'to' must be after 'from'"
DurationError == "Duration cannot exceed 12 hours"
AlignmentError == "Minutes must be a multiple of 30"

\* Mutant: the alignment rule is tried first.
validate_time_range_alignment_first(from_time, to_time) ==
    IF \/ from_time.minute % 30 # 0
       \/ to_time.minute % 30 # 0
       \/ from_time.second # 0
       \/ to_time.second # 0
    THEN AlignmentError
    ELSE IF DtLe(to_time, from_time)
    THEN OrderingError
    ELSE IF total_seconds_gt(timedelta(to_time, from_time), 12 * 3600)
    THEN DurationError
    ELSE NoError

\* Mutant: the duration limit is applied with >= instead of >.
validate_time_range_ge(from_time, to_time) ==
    IF DtLe(to_time, from_time)
    THEN OrderingError
    ELSE IF timedelta(to_time, from_time).seconds >= 12 * 3600
    THEN DurationError
    ELSE IF \/ from_time.minute % 30 # 0
            \/ to_time.minute % 30 # 0
            \/ from_time.second # 0
            \/ to_time.second # 0
    THEN AlignmentError
    ELSE NoError

\* Mutant: the duration rule is left out.
validate_time_range_no_duration(from_time, to_time) ==
    IF DtLe(to_time, from_time)
    THEN OrderingError
    ELSE IF \/ from_time.minute % 30 # 0
            \/ to_time.minute % 30 # 0
            \/ from_time.second # 0
            \/ to_time.second # 0
    THEN AlignmentError
    ELSE NoError

\* The detail of the HTTPException (400) the function raises, or NoError.
validate_time_range(from_time, to_time) ==
    IF DtLe(to_time, from_time)
    THEN OrderingError
    ELSE IF total_seconds_gt(timedelta(to_time, from_time), 12 * 3600)
    THEN DurationError
    ELSE IF \/ from_time.minute % 30 # 0
            \/ to_time.minute % 30 # 0
            \/ from_time.second # 0
            \/ to_time.second # 0
    THEN AlignmentError
    ELSE NoError

----------------------------------------------------------------------------
(* The data model's rules on a time range, as the claims state them *)

\* a is strictly later than b.
StrictlyAfter(a, b) ==
    \/ Seconds(a) > Seconds(b)
    \/ Seconds(a) = Seconds(b) /\ a.microsecond > b.microsecond

\* b - a is more than twelve hours, by however little.
ExceedsTwelveHours(a, b) ==
    \/ Seconds(b) - Seconds(a) > 43200
    \/ Seconds(b) - Seconds(a) = 43200 /\ b.microsecond > a.microsecond

\* t lies on the hour or the half hour, with zero seconds.
OnHalfHour(t) == t.minute \in {0, 30} /\ t.second = 0

----------------------------------------------------------------------------
(* Timetable service: data *)

Slots == {1, 2}
HospitalIds == {1, 2}

\* Absent key of a JSON object (dict.get answers None).
NoRole == "<absent>"

\* A JSON web token: the payload sign_in encodes and the key it is signed with.
Jwt(user_id, role, exp, key) ==
    [user_id |-> user_id, role |-> role, exp |-> exp, key |-> key]

\* A request that carries no token.
NoToken == Jwt(0, NoRole, 0, "")

\* What the account service's sign_in answers: status and the token pair.
Token(status_code, access_token, refresh_token) ==
    [status |-> status_code, access_token |-> access_token,
     refresh_token |-> refresh_token]

NoSignIn == Token(0, NoToken, NoToken)

\* The dict verify_token returns (the JSON of the Validate answer).
TokenDict(valid, user_id, role) ==
    [valid |-> valid, user_id |-> user_id, role |-> role]

NoDict == TokenDict(FALSE, 0, NoRole)

\* The answer of GET <auth-service>/Validate: status and JSON body.
AuthAnswer(status, valid, user_id, role) ==
    [status |-> status, json |-> TokenDict(valid, user_id, role)]

\* TimetableCreate.
TimetableCreate(hospital_id, doctor_id, room, from_time, to_time) ==
    [hospital_id |-> hospital_id, doctor_id |-> doctor_id, room |-> room,
     from_time |-> from_time, to_time |-> to_time]

Midnight == DateTime(0, 0, 0, 0, 0)
NoBody == TimetableCreate(0, 0, "", Midnight, Midnight)
NoWindow == [from_time |-> Midnight, to_time |-> Midnight]

\* Timetable(**timetable.dict()) with the primary key the database gave it.
Timetable(id, body) ==
    [id |-> id, hospital_id |-> body.hospital_id, doctor_id |-> body.doctor_id,
     room |-> body.room, from_time |-> body.from_time, to_time |-> body.to_time]

\* What a request is answered with.
NoResponse == [status |-> 0, detail |-> "", content |-> {}]
HTTPException(status_code, detail) ==
    [status |-> status_code, detail |-> detail, content |-> {}]
Response(status_code, content) ==
    [status |-> status_code, detail |-> "", content |-> content]

\* What a dependency or helper does: raise, or return a value.
Raised(error) == [raised |-> TRUE, error |-> error, value |-> NoDict]
Returned(value) == [raised |-> FALSE, error |-> NoResponse, value |-> value]

\* A request in the timetable service.
Call(op, pc, bearer, id, body, window) ==
    [op |-> op, pc |-> pc, bearer |-> bearer, id |-> id, body |-> body,
     window |-> window, token |-> NoDict, response |-> NoResponse]

Idle == Call("idle", "Idle", NoToken, 0, NoBody, NoWindow)

\* The states in which a slot holds no running request.
Done == {"Idle", "Persisted", "Responded", "Rejected"}

Reject(call, error) == [call EXCEPT !.pc = "Rejected", !.response = error]

----------------------------------------------------------------------------
(* Timetable service: dependencies and helpers *)

\* verify_token, given the authentication service's answer.
verify_token(answer) ==
    IF answer.status # 200 \/ ~answer.json.valid
    THEN Raised(HTTPException(401, "Invalid token"))
    ELSE Returned(answer.json)

\* admin_or_manager_required, given the dict verify_token returned.
admin_or_manager_required(token) ==
    IF token.role \notin {"admin", "manager"}
    THEN Raised(HTTPException(403, "Only admins or managers allowed"))
    ELSE Returned(token)

\* Mutant: only an answer of 404 counts as "not found".
hospital_exists_only_404(status_code) ==
    IF status_code = 404
    THEN Raised(HTTPException(404, "Hospital not found"))
    ELSE Returned(NoDict)

\* hospital_exists, given the status of the hospital service's answer.
hospital_exists(status_code) ==
    IF status_code # 200
    THEN Raised(HTTPException(404, "Hospital not found"))
    ELSE Returned(NoDict)

\* session.get(Timetable, id): the rows with that primary key (none or one).
session_get(rows, id) == {t \in rows : t.id = id}

\* Mutant: a row equal to a stored one in everything but the id is not inserted.
session_add_unique(rows, row) ==
    IF \E t \in rows : [t EXCEPT !.id = row.id] = row
    THEN rows
    ELSE rows \cup {row}

\* session.add(new_timetable); session.commit(): the table with the row inserted.
session_add(rows, row) == rows \cup {row}

\* Mutant: the window's bounds are exclusive.
select_for_hospital_exclusive(rows, id, from_time, to_time) ==
    {t \in rows : /\ t.hospital_id = id
                  /\ ~DtLe(t.from_time, from_time)
                  /\ ~DtLe(to_time, t.to_time)}

\* select(Timetable).where(hospital_id == id, from_time >= from_time,
\* to_time <= to_time), executed.
select_for_hospital(rows, id, from_time, to_time) ==
    {t \in rows : /\ t.hospital_id = id
                  /\ DtLe(from_time, t.from_time)
                  /\ DtLe(t.to_time, to_time)}

----------------------------------------------------------------------------
(* Timetable service: the steps of the handlers *)

\* The create_timetable requests that have not been answered yet.
RunningCreates == {c \in Slots : calls[c].op = "create" /\ calls[c].pc \notin Done}

\* A request arrives in a free slot.  A create is taken only while the
\* database sequence has an id left for it.
Receive(c, request) ==
    /\ calls[c].pc \in Done
    /\ request.op = "create" => next_id + Cardinality(RunningCreates) <= MaxId
    /\ calls' = [calls EXCEPT ![c] = request]
    /\ UNCHANGED <<ttVars, directory, valVars, acctVars, hospVars>>

\* The dependencies of the route: verify_token for every route, and
\* admin_or_manager_required on top of it for create, update and delete.
\* `token: str` is a required parameter of verify_token, so FastAPI answers
\* a request without it 422 before the dependency runs.
Authenticate(c, answer) ==
    /\ calls[c].pc = "Received"
    /\ LET call     == calls[c]
           verified == verify_token(answer)
           allowed  == admin_or_manager_required(verified.value)
       IN  calls' = [calls EXCEPT ![c] =
             IF call.bearer = NoToken
             THEN Reject(call, HTTPException(422, "Field required"))
             ELSE IF verified.raised
             THEN Reject(call, verified.error)
             ELSE IF call.op \in {"create", "update", "delete"} /\ allowed.raised
             THEN Reject(call, allowed.error)
             ELSE [call EXCEPT !.pc = "Authorized", !.token = verified.value]]
    /\ UNCHANGED <<ttVars, directory, valVars, acctVars, hospVars>>

\* create_timetable, update_timetable: validate_time_range on the body.
Validate(c) ==
    /\ calls[c].pc = "Authorized"
    /\ calls[c].op \in {"create", "update"}
    /\ LET call   == calls[c]
           detail == validate_time_range(call.body.from_time, call.body.to_time)
       IN  calls' = [calls EXCEPT ![c] =
             IF detail # NoError
             THEN Reject(call, HTTPException(400, detail))
             ELSE [call EXCEPT !.pc = "Validated"]]
    /\ UNCHANGED <<ttVars, directory, valVars, acctVars, hospVars>>

\* create_timetable: await hospital_exists(timetable.hospital_id), given the
\* status the hospital service answers with.
CheckHospital(c, status_code) ==
    /\ calls[c].pc = "Validated"
    /\ calls[c].op = "create"
    /\ LET call  == calls[c]
           check == hospital_exists(status_code)
       IN  calls' = [calls EXCEPT ![c] =
             IF check.raised
             THEN Reject(call, check.error)
             ELSE [call EXCEPT !.pc = "ExistenceChecked"]]
    /\ UNCHANGED <<ttVars, directory, valVars, acctVars, hospVars>>

\* create_timetable: add, commit, refresh, return the new row (201).
CommitCreate(c) ==
    /\ calls[c].pc = "ExistenceChecked"
    /\ calls[c].op = "create"
    /\ LET new_timetable == Timetable(next_id, calls[c].body)
       IN  /\ timetables' = session_add(timetables, new_timetable)
           /\ next_id' = next_id + 1
           /\ calls' = [calls EXCEPT ![c] =
                [@ EXCEPT !.pc = "Persisted",
                          !.response = Response(201, {new_timetable})]]
    /\ UNCHANGED <<directory, valVars, acctVars, hospVars>>

\* update_timetable after validation: session.get, then every field of the
\* body set on the row, commit, refresh, return the row (200).
CommitUpdate(c) ==
    /\ calls[c].pc = "Validated"
    /\ calls[c].op = "update"
    /\ LET call     == calls[c]
           existing == session_get(timetables, call.id)
           updated  == Timetable(call.id, call.body)
       IN  IF existing = {}
           THEN /\ calls' = [calls EXCEPT ![c] =
                     Reject(call, HTTPException(404, "Timetable not found"))]
                /\ UNCHANGED timetables
           ELSE /\ timetables' = (timetables \ existing) \cup {updated}
                /\ calls' = [calls EXCEPT ![c] =
                     [call EXCEPT !.pc = "Persisted",
                                  !.response = Response(200, {updated})]]
    /\ UNCHANGED <<next_id, directory, valVars, acctVars, hospVars>>

\* delete_timetable: session.get, delete, commit (204).
Delete(c) ==
    /\ calls[c].pc = "Authorized"
    /\ calls[c].op = "delete"
    /\ LET call     == calls[c]
           existing == session_get(timetables, call.id)
       IN  IF existing = {}
           THEN /\ calls' = [calls EXCEPT ![c] =
                     Reject(call, HTTPException(404, "Timetable not found"))]
                /\ UNCHANGED timetables
           ELSE /\ timetables' = timetables \ existing
                /\ calls' = [calls EXCEPT ![c] =
                     [call EXCEPT !.pc = "Responded",
                                  !.response = Response(204, {})]]
    /\ UNCHANGED <<next_id, directory, valVars, acctVars, hospVars>>

\* get_timetable_for_hospital: the select, executed (200).
Query(c) ==
    /\ calls[c].pc = "Authorized"
    /\ calls[c].op = "query"
    /\ LET call == calls[c]
           rows == select_for_hospital(timetables, call.id,
                                       call.window.from_time, call.window.to_time)
       IN  calls' = [calls EXCEPT ![c] =
             [call EXCEPT !.pc = "Responded", !.response = Response(200, rows)]]
    /\ UNCHANGED <<ttVars, directory, valVars, acctVars, hospVars>>

----------------------------------------------------------------------------
(* Spec: the timetable service, one request at a time, with the             *)
(* authentication service and the hospital directory as environment        *)

\* Statuses the hospital directory answers with.
DirectoryAnswers == {200, 404, 503}

\* What the authentication service can answer: a refusal, a body without a
\* true "valid", or a valid token's claims, with or without a role.
AuthAnswers ==
    {AuthAnswer(401, FALSE, 0, NoRole), AuthAnswer(200, FALSE, 0, NoRole)}
    \cup {AuthAnswer(200, TRUE, 1, r) : r \in {"admin", "manager", "user", NoRole}}

\* Some token the client sends; the environment decides what it is worth.
OpaqueToken == Jwt(1, NoRole, 0, "opaque")
Bearers == {NoToken, OpaqueToken}

\* Time ranges: two valid ones (the second exactly twelve hours long), one
\* out of order, one too long, one off the half hour.
Ranges ==
    { <<DateTime(0, 8, 0, 0, 0), DateTime(0, 10, 0, 0, 0)>>,
      <<DateTime(0, 8, 0, 0, 0), DateTime(0, 20, 0, 0, 0)>>,
      <<DateTime(0, 10, 0, 0, 0), DateTime(0, 8, 0, 0, 0)>>,
      <<DateTime(0, 8, 0, 0, 0), DateTime(0, 20, 30, 0, 0)>>,
      <<DateTime(0, 8, 5, 0, 0), DateTime(0, 10, 0, 0, 0)>> }

\* Bodies: every range for hospital 1, and the first valid one for hospital 2.
Bodies ==
    {TimetableCreate(1, 1, "101", r[1], r[2]) : r \in Ranges}
    \cup {TimetableCreate(2, 1, "101", DateTime(0, 8, 0, 0, 0), DateTime(0, 10, 0, 0, 0))}

\* The body sent along when no token is.
SomeBody ==
    TimetableCreate(1, 1, "101", DateTime(0, 8, 0, 0, 0), DateTime(0, 10, 0, 0, 0))

\* Query windows: around the first range, around both, around neither.
Windows ==
    { [from_time |-> DateTime(0, 8, 0, 0, 0), to_time |-> DateTime(0, 10, 0, 0, 0)],
      [from_time |-> DateTime(0, 8, 0, 0, 0), to_time |-> DateTime(0, 20, 0, 0, 0)],
      [from_time |-> DateTime(0, 8, 5, 0, 0), to_time |-> DateTime(0, 20, 30, 0, 0)] }

\* The ids update and delete are asked for: at times stored, at times not.
PathIds == {1, 2}

\* With a token, every body, id and window; without one, one request per route.
Requests ==
    {Call("create", "Received", OpaqueToken, 0, body, NoWindow) : body \in Bodies}
    \cup {Call("update", "Received", OpaqueToken, id, body, NoWindow) :
            id \in PathIds, body \in Bodies}
    \cup {Call("delete", "Received", OpaqueToken, id, NoBody, NoWindow) : id \in PathIds}
    \cup {Call("query", "Received", OpaqueToken, h, NoBody, w) :
            h \in HospitalIds, w \in Windows}
    \cup { Call("create", "Received", NoToken, 0, SomeBody, NoWindow),
           Call("update", "Received", NoToken, 1, SomeBody, NoWindow),
           Call("delete", "Received", NoToken, 1, NoBody, NoWindow),
           Call("query", "Received", NoToken, 1, NoBody,
                [from_time |-> DateTime(0, 8, 0, 0, 0),
                 to_time |-> DateTime(0, 20, 0, 0, 0)]) }

Init ==
    /\ timetables = {}
    /\ next_id = 1
    /\ directory \in [HospitalIds -> DirectoryAnswers]
    /\ calls = [c \in Slots |-> Idle]
    /\ arg_from = Midnight
    /\ arg_to = Midnight
    /\ raised = Pending
    /\ users = {}
    /\ now = 0
    /\ client = NoSignIn
    /\ hospitals = {}
    /\ next_hospital_id = 1

\* The hospital directory changes what it answers for one hospital.
DirectoryChange(h, status_code) ==
    /\ directory' = [directory EXCEPT ![h] = status_code]
    /\ UNCHANGED <<ttVars, calls, valVars, acctVars, hospVars>>

Next ==
    \/ \E request \in Requests : Receive(1, request)
    \/ \E answer \in AuthAnswers : Authenticate(1, answer)
    \/ Validate(1)
    \/ CheckHospital(1, directory[calls[1].body.hospital_id])
    \/ CommitCreate(1)
    \/ CommitUpdate(1)
    \/ Delete(1)
    \/ Query(1)
    \/ \E h \in HospitalIds, status_code \in DirectoryAnswers :
          DirectoryChange(h, status_code)

Spec == Init /\ [][Next]_vars

----------------------------------------------------------------------------
(* Claims about the timetable service (Spec) *)

WriteOps == {"create", "update", "delete"}

\* The time range of a body passes every rule of the data model.
ValidRange(body) ==
    /\ StrictlyAfter(body.to_time, body.from_time)
    /\ ~ExceedsTwelveHours(body.from_time, body.to_time)
    /\ OnHalfHour(body.from_time)
    /\ OnHalfHour(body.to_time)

\* C1: whatever create, update and delete requests were made, accepted or
\* rejected, every stored Timetable row ends strictly after it starts, lasts
\* at most twelve hours, and starts and ends on minute 0 or 30 with second 0.
C1_StoredRangesValid ==
    \A t \in timetables :
        /\ StrictlyAfter(t.to_time, t.from_time)
        /\ ~ExceedsTwelveHours(t.from_time, t.to_time)
        /\ t.from_time.minute \in {0, 30}
        /\ t.to_time.minute \in {0, 30}
        /\ t.from_time.second = 0
        /\ t.to_time.second = 0

\* C1 witness: an update was persisted, so a row was created and then replaced.
C1_Witness ==
    \E c \in Slots :
        /\ calls[c].op = "update"
        /\ calls[c].pc = "Persisted"
        /\ calls[c].response.content \subseteq timetables
        /\ timetables # {}

\* C2 (the claim as stated): when update_timetable, for an existing id and a
\* valid range, goes on after validation while the hospital directory answers
\* non-200 for the body's hospital_id, the request is rejected with 404
\* "Hospital not found" and the table is unchanged.
C2_UpdateChecksHospital ==
    [][\A c \in Slots :
          ( /\ calls[c].op = "update"
            /\ calls[c].pc = "Validated"
            /\ calls'[c] # calls[c]
            /\ session_get(timetables, calls[c].id) # {}
            /\ directory[calls[c].body.hospital_id] # 200 )
          => /\ calls'[c].pc = "Rejected"
             /\ calls'[c].response = HTTPException(404, "Hospital not found")
             /\ timetables' = timetables]_vars

\* C7: create_timetable writes only after validation and the existence
\* check have both passed: a non-200 answer of the hospital directory ends
\* the request Rejected with 404 "Hospital not found", a failed validation
\* ends it with 400, a rejected request leaves the table and the sequence as
\* they were, and a row is inserted only from ExistenceChecked, which is
\* reached only from Validated on an answer of 200 with a valid range.
C7_NoPartialPersistence ==
    [][\A c \in Slots :
          (calls[c].op = "create" /\ calls'[c] # calls[c]) =>
             /\ ( /\ calls[c].pc = "Validated"
                  /\ directory[calls[c].body.hospital_id] # 200 )
                => /\ calls'[c].pc = "Rejected"
                   /\ calls'[c].response = HTTPException(404, "Hospital not found")
             /\ ( /\ calls[c].pc = "Authorized"
                  /\ ~ValidRange(calls[c].body) )
                => /\ calls'[c].pc = "Rejected"
                   /\ calls'[c].response.status = 400
             /\ calls'[c].pc = "Rejected"
                => timetables' = timetables /\ next_id' = next_id
             /\ timetables' # timetables
                => /\ calls[c].pc = "ExistenceChecked"
                   /\ calls'[c].pc = "Persisted"
                   /\ ValidRange(calls[c].body)
             /\ calls'[c].pc = "ExistenceChecked"
                => /\ calls[c].pc = "Validated"
                   /\ directory[calls[c].body.hospital_id] = 200]_vars

\* C7 witness: a create with a valid range was rejected with 404 "Hospital
\* not found" while rows of earlier creates are stored.
C7_Witness ==
    \E c \in Slots :
        /\ calls[c].op = "create"
        /\ calls[c].pc = "Rejected"
        /\ calls[c].response = HTTPException(404, "Hospital not found")
        /\ ValidRange(calls[c].body)
        /\ timetables # {}

\* C8 (the claim as stated): a create, update or delete request without a
\* token, or with a token the authentication service does not accept, is
\* rejected with 401, one whose role is not admin or manager with 403, both
\* before any write; the table changes only under a request whose validated
\* role is admin or manager.
C8_Unauthorized401Or403 ==
    [][/\ \A c \in Slots :
            ( /\ calls[c].op \in WriteOps
              /\ calls[c].pc = "Received"
              /\ calls'[c] # calls[c] ) =>
               /\ timetables' = timetables
               /\ calls[c].bearer = NoToken
                  => calls'[c].pc = "Rejected" /\ calls'[c].response.status = 401
               /\ calls'[c].pc = "Rejected"
                  => calls'[c].response.status \in {401, 403}
               /\ calls'[c].pc # "Rejected"
                  => calls'[c].token.valid /\ calls'[c].token.role \in {"admin", "manager"}
       /\ timetables' # timetables
            => \E c \in Slots :
                  /\ calls[c].op \in WriteOps
                  /\ calls[c].token.role \in {"admin", "manager"}]_vars

\* C9: get_timetable_for_hospital answers 200 with exactly the stored rows
\* of hospital id that start at or after the window's from_time and end at or
\* before its to_time, and changes nothing in the table.
C9_QueryReturnsContained ==
    [][\A c \in Slots :
          ( /\ calls[c].op = "query"
            /\ calls[c].pc = "Authorized"
            /\ calls'[c] # calls[c] ) =>
             /\ calls'[c].pc = "Responded"
             /\ calls'[c].response.status = 200
             /\ \A t \in timetables \cup calls'[c].response.content :
                   t \in calls'[c].response.content <=>
                      /\ t \in timetables
                      /\ t.hospital_id = calls[c].id
                      /\ ~StrictlyAfter(calls[c].window.from_time, t.from_time)
                      /\ ~StrictlyAfter(t.to_time, calls[c].window.to_time)
             /\ timetables' = timetables
             /\ next_id' = next_id]_vars

\* C9 witness: a query returned a row whose range equals the window and left
\* out a row of the same hospital that only overlaps the window.
C9_Witness ==
    \E c \in Slots :
        /\ calls[c].op = "query"
        /\ calls[c].pc = "Responded"
        /\ \E t \in calls[c].response.content :
              /\ t.from_time = calls[c].window.from_time
              /\ t.to_time = calls[c].window.to_time
        /\ \E t \in timetables \ calls[c].response.content :
              /\ t.hospital_id = calls[c].id
              /\ StrictlyAfter(t.to_time, calls[c].window.to_time)

----------------------------------------------------------------------------
(* ConcSpec: two create_timetable requests in flight at once *)

\* Bodies of the concurrent creates: a valid range and one out of order, for
\* a hospital the directory knows and one it does not.
ConcBodies ==
    {TimetableCreate(h, 1, "101", r[1], r[2]) :
        h \in HospitalIds,
        r \in { <<DateTime(0, 8, 0, 0, 0), DateTime(0, 10, 0, 0, 0)>>,
                <<DateTime(0, 10, 0, 0, 0), DateTime(0, 8, 0, 0, 0)>> }}

ConcRequests ==
    {Call("create", "Received", OpaqueToken, 0, body, NoWindow) : body \in ConcBodies}

ConcAnswers == {AuthAnswer(200, TRUE, 1, r) : r \in {"admin", "manager", "user"}}

ConcInit ==
    /\ timetables = {}
    /\ next_id = 1
    /\ directory = [h \in HospitalIds |-> IF h = 1 THEN 200 ELSE 404]
    /\ calls = [c \in Slots |-> Idle]
    /\ arg_from = Midnight
    /\ arg_to = Midnight
    /\ raised = Pending
    /\ users = {}
    /\ now = 0
    /\ client = NoSignIn
    /\ hospitals = {}
    /\ next_hospital_id = 1

ConcNext ==
    \E c \in Slots :
        \/ \E request \in ConcRequests : Receive(c, request)
        \/ \E answer \in ConcAnswers : Authenticate(c, answer)
        \/ Validate(c)
        \/ CheckHospital(c, directory[calls[c].body.hospital_id])
        \/ CommitCreate(c)

ConcSpec == ConcInit /\ [][ConcNext]_vars

\* C10: two create_timetable requests with the same hospital, room and
\* times, however their steps interleave, are rejected only for their own
\* token, range or hospital, never for each other; when both are persisted
\* they have returned two rows that differ in the id alone, both stored.
C10_DuplicateCreatesBothSucceed ==
    /\ \A c \in Slots :
          calls[c].pc = "Rejected" =>
             \/ calls[c].response.status = 403 /\ calls[c].token = NoDict
             \/ calls[c].response.status = 400 /\ ~ValidRange(calls[c].body)
             \/ /\ calls[c].response.status = 404
                /\ directory[calls[c].body.hospital_id] # 200
    /\ \A c1, c2 \in Slots :
          ( /\ c1 # c2
            /\ calls[c1].pc = "Persisted"
            /\ calls[c2].pc = "Persisted"
            /\ calls[c1].body = calls[c2].body ) =>
             /\ calls[c1].response.status = 201
             /\ calls[c2].response.status = 201
             /\ calls[c1].response.content \subseteq timetables
             /\ calls[c2].response.content \subseteq timetables
             /\ \A t1 \in calls[c1].response.content, t2 \in calls[c2].response.content :
                   /\ t1.id # t2.id
                   /\ [t1 EXCEPT !.id = t2.id] = t2
             /\ Cardinality(timetables) >= 2

\* C10 witness: both slots hold a persisted create of the same body.
C10_Witness ==
    /\ calls[1].pc = "Persisted"
    /\ calls[2].pc = "Persisted"
    /\ calls[1].body = calls[2].body
    /\ Cardinality(timetables) = 2

----------------------------------------------------------------------------
(* Account service (src/account_service/account_service.py) *)

\* Largest value of the clock, in hours.
MaxNow == 2

SECRET_KEY == "key"

\* A row of table users (first_name and last_name play no part and are left out).
User(id, username, password, role) ==
    [id |-> id, username |-> username, password |-> password, role |-> role]

\* create_token at time t: the data plus "exp", signed with SECRET_KEY.
\* Times are in hours.
create_token(data, expires_delta, t) ==
    Jwt(data.user_id, data.role, t + expires_delta, SECRET_KEY)

\* sign_in at time t: the user row by username, the password compared as
\* stored, an access token of one hour and a refresh token of seven days.
sign_in(rows, username, password, t) ==
    LET found == {u \in rows : u.username = username}
    IN  IF found = {} \/ \A u \in found : u.password # password
        THEN Token(401, NoToken, NoToken)
        ELSE LET user == CHOOSE u \in found : TRUE
                 data == [user_id |-> user.id, role |-> user.role]
             IN  Token(200, create_token(data, 1, t), create_token(data, 7 * 24, t))

\* jwt.decode(token, SECRET_KEY) at time t raises JWTError: the signature
\* was not made with SECRET_KEY, or "exp" has passed.
jwt_decode_raises(token, t) == token.key # SECRET_KEY \/ token.exp < t

\* validate_token at time t: what GET Validate answers for a bearer token.
\* The answer's JSON holds "valid" and "user_id" and nothing else.
validate_token(token, t) ==
    IF jwt_decode_raises(token, t)
    THEN AuthAnswer(401, FALSE, 0, NoRole)
    ELSE AuthAnswer(200, TRUE, token.user_id, NoRole)

----------------------------------------------------------------------------
(* AuthSpec: the timetable service behind the account service *)

\* The rows the users table can hold when the services start.
SeededUsers ==
    { User(1, "alice", "pw-a", "admin"),
      User(2, "bob", "pw-b", "manager"),
      User(3, "carol", "pw-c", "user") }

Credentials ==
    { <<"alice", "pw-a">>, <<"bob", "pw-b">>, <<"carol", "pw-c">>,
      <<"alice", "pw-b">>, <<"dave", "pw-d">> }

\* A token signed with a key that is not SECRET_KEY.
ForgedToken == Jwt(1, "admin", 1000, "guess")

AuthBody ==
    TimetableCreate(1, 1, "101", DateTime(0, 8, 0, 0, 0), DateTime(0, 10, 0, 0, 0))

\* The requests a client makes with the tokens it holds.
AuthRequests ==
    LET held == {NoToken, ForgedToken, client.access_token, client.refresh_token}
    IN  {Call("create", "Received", b, 0, AuthBody, NoWindow) : b \in held}
        \cup {Call("update", "Received", b, 1, AuthBody, NoWindow) : b \in held}
        \cup {Call("delete", "Received", b, 1, NoBody, NoWindow) : b \in held}
        \cup {Call("query", "Received", b, 1, NoBody, w) : b \in held, w \in Windows}

AuthInit ==
    /\ timetables = {}
    /\ next_id = 1
    /\ directory = [h \in HospitalIds |-> 200]
    /\ calls = [c \in Slots |-> Idle]
    /\ arg_from = Midnight
    /\ arg_to = Midnight
    /\ raised = Pending
    /\ users \in SUBSET SeededUsers
    /\ now = 0
    /\ client = NoSignIn
    /\ hospitals = {}
    /\ next_hospital_id = 1

\* POST SignIn: the client keeps the answer.
SignIn(username, password) ==
    /\ client' = sign_in(users, username, password, now)
    /\ UNCHANGED <<ttVars, directory, calls, valVars, users, now, hospVars>>

\* An hour passes.
Tick ==
    /\ now < MaxNow
    /\ now' = now + 1
    /\ UNCHANGED <<ttVars, directory, calls, valVars, users, client, hospVars>>

\* No create, update or delete request gets past the dependencies here (see
\* C3), so the steps after Authenticate are those of the query alone.
AuthNext ==
    \/ \E cred \in Credentials : SignIn(cred[1], cred[2])
    \/ Tick
    \/ \E request \in AuthRequests : Receive(1, request)
    \/ Authenticate(1, validate_token(calls[1].bearer, now))
    \/ Query(1)

AuthSpec == AuthInit /\ [][AuthNext]_vars

\* C3 (the claim as stated): a create, update or delete request that bears
\* a token sign_in issued to a user whose role is admin or manager, and that
\* the authentication service accepted as valid, gets the role in the dict
\* verify_token returns and passes admin_or_manager_required (no 403).
C3_AdminOrManagerPasses ==
    \A c \in Slots :
        ( /\ calls[c].op \in WriteOps
          /\ calls[c].pc \notin {"Idle", "Received"}
          /\ calls[c].bearer.key = SECRET_KEY
          /\ calls[c].bearer.role \in {"admin", "manager"}
          /\ \E u \in users : u.id = calls[c].bearer.user_id /\ u.role = calls[c].bearer.role
          /\ calls[c].response.status # 401 )
        => /\ calls[c].response.status # 403
           /\ calls[c].token.role = calls[c].bearer.role

----------------------------------------------------------------------------
(* Hospital service (src/hospital_service/hospital_service.py) *)

\* A row of table Hospital.
Hospital(id, name, address, contact_phone) ==
    [id |-> id, name |-> name, address |-> address, contact_phone |-> contact_phone]

\* The hospital service's own verify_token, given the authentication
\* service's answer.
hospital_verify_token(answer) ==
    IF answer.status # 200 \/ ~answer.json.valid
    THEN Raised(HTTPException(401, "Invalid token"))
    ELSE Returned(answer.json)

\* admin_required, given the dict verify_token returned.
admin_required(token) ==
    IF token.role # "admin"
    THEN Raised(HTTPException(403, "Only admins can perform this action"))
    ELSE Returned(token)

\* GET /api/Hospitals/{id}.  `token: str` is a required parameter of the
\* dependency verify_token: a request without it is answered 422 before the
\* dependency or the handler runs.
get_hospital(rows, id, bearer, answer) ==
    IF bearer = NoToken
    THEN HTTPException(422, "Field required")
    ELSE IF hospital_verify_token(answer).raised
    THEN hospital_verify_token(answer).error
    ELSE IF session_get(rows, id) = {}
    THEN HTTPException(404, "Hospital not found")
    ELSE Response(200, session_get(rows, id))

\* The answer to the request hospital_exists sends: a GET of the URL with no
\* header and no parameter, so without a token.
hospital_service_answer(rows, id, answer) == get_hospital(rows, id, NoToken, answer)

----------------------------------------------------------------------------
(* HospSpec: create_timetable against the hospital service *)

HospBodies == ConcBodies

HospRequests ==
    {Call("create", "Received", b, 0, body, NoWindow) : b \in Bearers, body \in HospBodies}

HospInit ==
    /\ timetables = {}
    /\ next_id = 1
    /\ directory = [h \in HospitalIds |-> 404]
    /\ calls = [c \in Slots |-> Idle]
    /\ arg_from = Midnight
    /\ arg_to = Midnight
    /\ raised = Pending
    /\ users = {}
    /\ now = 0
    /\ client = NoResponse
    /\ hospitals = {}
    /\ next_hospital_id = 1

\* POST /api/Hospitals: admin_required, then add, commit, refresh (201).
\* The client keeps the answer.
CreateHospital(bearer, answer) ==
    /\ next_hospital_id \in HospitalIds
    /\ LET verified == hospital_verify_token(answer)
           allowed  == admin_required(verified.value)
           hospital == Hospital(next_hospital_id, "General", "1 Main St", "555-0100")
       IN  IF bearer = NoToken
           THEN /\ client' = HTTPException(422, "Field required")
                /\ UNCHANGED hospVars
           ELSE IF verified.raised
           THEN /\ client' = verified.error
                /\ UNCHANGED hospVars
           ELSE IF allowed.raised
           THEN /\ client' = allowed.error
                /\ UNCHANGED hospVars
           ELSE /\ hospitals' = hospitals \cup {hospital}
                /\ next_hospital_id' = next_hospital_id + 1
                /\ client' = Response(201, {hospital})
    /\ UNCHANGED <<ttVars, directory, calls, valVars, users, now>>

\* DELETE /api/Hospitals/{id}: admin_required, then get, delete, commit (204).
DeleteHospital(bearer, answer, id) ==
    /\ LET verified == hospital_verify_token(answer)
           allowed  == admin_required(verified.value)
           existing == session_get(hospitals, id)
       IN  IF bearer = NoToken
           THEN /\ client' = HTTPException(422, "Field required")
                /\ UNCHANGED hospitals
           ELSE IF verified.raised
           THEN /\ client' = verified.error
                /\ UNCHANGED hospitals
           ELSE IF allowed.raised
           THEN /\ client' = allowed.error
                /\ UNCHANGED hospitals
           ELSE IF existing = {}
           THEN /\ client' = HTTPException(404, "Hospital not found")
                /\ UNCHANGED hospitals
           ELSE /\ hospitals' = hospitals \ existing
                /\ client' = Response(204, {})
    /\ UNCHANGED <<ttVars, directory, calls, valVars, users, now,
                   next_hospital_id>>

\* GET /api/Hospitals/{id} by a client.
GetHospital(bearer, answer, id) ==
    /\ client' = get_hospital(hospitals, id, bearer, answer)
    /\ UNCHANGED <<ttVars, directory, calls, valVars, users, now, hospVars>>

\* No create request gets past hospital_exists here (see C4), so CommitCreate
\* is no step of this specification.
HospNext ==
    \/ \E bearer \in Bearers, answer \in AuthAnswers : CreateHospital(bearer, answer)
    \/ \E bearer \in Bearers, answer \in AuthAnswers, id \in HospitalIds :
          DeleteHospital(bearer, answer, id)
    \/ \E bearer \in Bearers, answer \in AuthAnswers, id \in HospitalIds :
          GetHospital(bearer, answer, id)
    \/ \E request \in HospRequests : Receive(1, request)
    \/ \E answer \in AuthAnswers : Authenticate(1, answer)
    \/ Validate(1)
    \/ \E answer \in AuthAnswers :
          CheckHospital(1, hospital_service_answer(
                              hospitals, calls[1].body.hospital_id, answer).status)

HospSpec == HospInit /\ [][HospNext]_vars

\* C4 (the claim as stated): when the hospital of the body is a row of the
\* hospital service at the time create_timetable makes its existence check,
\* the check passes and the request goes on to ExistenceChecked; the request
\* is rejected with "Hospital not found" only when there is no such row.
C4_ExistingHospitalPasses ==
    [][\A c \in Slots :
          ( /\ calls[c].op = "create"
            /\ calls[c].pc = "Validated"
            /\ calls'[c] # calls[c] ) =>
             IF session_get(hospitals, calls[c].body.hospital_id) # {}
             THEN calls'[c].pc = "ExistenceChecked"
             ELSE /\ calls'[c].pc = "Rejected"
                  /\ calls'[c].response = HTTPException(404, "Hospital not found")]_vars

----------------------------------------------------------------------------
(* ValSpec: validate_time_range on a grid of instants *)

\* Instants around the rules' edges: on and off the half hour, with and
\* without seconds and microseconds, twelve hours apart and a day apart.
Instants ==
    { DateTime(0, 8, 0, 0, 0),
      DateTime(0, 8, 5, 0, 0),
      DateTime(0, 8, 30, 0, 0),
      DateTime(0, 9, 0, 0, 0),
      DateTime(0, 9, 0, 30, 0),
      DateTime(0, 9, 0, 0, 1),
      DateTime(0, 10, 0, 0, 0),
      DateTime(0, 20, 0, 0, 0),
      DateTime(0, 20, 0, 0, 1),
      DateTime(0, 20, 0, 1, 0),
      DateTime(0, 20, 5, 0, 0),
      DateTime(0, 20, 30, 0, 0),
      DateTime(0, 21, 5, 0, 0),
      DateTime(1, 8, 0, 0, 0) }

ValInit ==
    /\ timetables = {}
    /\ next_id = 1
    /\ directory = [h \in HospitalIds |-> 404]
    /\ calls = [c \in Slots |-> Idle]
    /\ arg_from \in Instants
    /\ arg_to \in Instants
    /\ raised = Pending
    /\ users = {}
    /\ now = 0
    /\ client = NoSignIn
    /\ hospitals = {}
    /\ next_hospital_id = 1

\* One call of validate_time_range(arg_from, arg_to).
CallValidate ==
    /\ raised = Pending
    /\ raised' = validate_time_range(arg_from, arg_to)
    /\ UNCHANGED <<ttVars, directory, calls, arg_from, arg_to, acctVars, hospVars>>

\* The next pair of arguments.
NextArguments ==
    /\ raised # Pending
    /\ arg_from' \in Instants
    /\ arg_to' \in Instants
    /\ raised' = Pending
    /\ UNCHANGED <<ttVars, directory, calls, acctVars, hospVars>>

ValNext == CallValidate \/ NextArguments

ValSpec == ValInit /\ [][ValNext]_vars

\* C5: the rules of validate_time_range are applied in order and the first
\* failure wins: a pair with to_time <= from_time raises the ordering error
\* whatever its alignment and duration; a pair in order and longer than
\* twelve hours raises the duration error whatever its alignment; the
\* alignment error is raised only for a pair in order and within twelve hours.
C5_FirstFailureWins ==
    raised # Pending =>
        /\ ~StrictlyAfter(arg_to, arg_from) => raised = OrderingError
        /\ StrictlyAfter(arg_to, arg_from) /\ ExceedsTwelveHours(arg_from, arg_to)
              => raised = DurationError
        /\ raised = AlignmentError
              => StrictlyAfter(arg_to, arg_from) /\ ~ExceedsTwelveHours(arg_from, arg_to)

\* C5 witness: a misaligned pair longer than twelve hours was validated and
\* raised the duration error, and so was not reported as misaligned.
C5_Witness ==
    /\ raised = DurationError
    /\ ~OnHalfHour(arg_from)
    /\ ~OnHalfHour(arg_to)

\* C6: validate_time_range accepts every pair in order, at most twelve hours
\* long, with both instants on a half hour with zero seconds; exactly twelve
\* hours is accepted and any excess is rejected; a pair in order and within
\* twelve hours with a minute other than 0 or 30, or a second other than 0,
\* raises the alignment error.
C6_AcceptsExactlyTheAligned ==
    raised # Pending =>
        /\ ( /\ StrictlyAfter(arg_to, arg_from)
             /\ ~ExceedsTwelveHours(arg_from, arg_to)
             /\ OnHalfHour(arg_from)
             /\ OnHalfHour(arg_to) ) => raised = NoError
        /\ ( /\ Seconds(arg_to) - Seconds(arg_from) = 43200
             /\ arg_to.microsecond = arg_from.microsecond
             /\ OnHalfHour(arg_from)
             /\ OnHalfHour(arg_to) ) => raised = NoError
        /\ ( /\ StrictlyAfter(arg_to, arg_from)
             /\ ExceedsTwelveHours(arg_from, arg_to) ) => raised # NoError
        /\ ( /\ StrictlyAfter(arg_to, arg_from)
             /\ ~ExceedsTwelveHours(arg_from, arg_to)
             /\ ~(OnHalfHour(arg_from) /\ OnHalfHour(arg_to)) )
              => raised = AlignmentError

\* C6 witness: a pair exactly twelve hours long, on the half hour, was accepted.
C6_Witness ==
    /\ raised = NoError
    /\ Seconds(arg_to) - Seconds(arg_from) = 43200
    /\ arg_to.microsecond = arg_from.microsecond

====
